---- MODULE Spec2Model ----
(***************************************************************************)
(* Model of matlab_readme_updater.py: one run of the script scans the      *)
(* working directory for project folders, formats them as a Markdown       *)
(* bullet list and splices the list between two markers of README.md.      *)
(*                                                                         *)
(* Strings are sequences of one-character strings.  File contents are      *)
(* sequences of the same characters, read and written in text mode with    *)
(* encoding utf-8 on a POSIX host (os.linesep = "\n").  Directory entry    *)
(* names are the str values os.listdir returns: a file name holding a byte *)
(* that is not valid UTF-8 arrives with that byte as a lone surrogate.     *)
(***************************************************************************)
EXTENDS Integers, Sequences, FiniteSets, TLC

VARIABLES
    cwd_listable,           \* os.listdir('.') succeeds
    dir_entries,            \* entries of the working directory, in listing order
    proj_readme,            \* <folder>/README.md of every entry
    readme,                 \* the root README.md
    pc,                     \* position of the run in the main block
    runs,                   \* number of runs of the script started so far
    project_folders,        \* main: result of get_project_folders()
    descriptions,           \* format_projects_as_markdown: description of each iteration
    project_list_markdown,  \* main: result of format_projects_as_markdown()
    calls                   \* record of every update_readme call made so far

vars == <<cwd_listable, dir_entries, proj_readme, readme, pc, runs,
          project_folders, descriptions, project_list_markdown, calls>>

fs == <<cwd_listable, dir_entries, proj_readme>>

-----------------------------------------------------------------------------
(* Bounds *)

MaxRuns == 2
MaxEntries == 3
MaxProjReadmeLen == 3
MaxPieces == 3

-----------------------------------------------------------------------------
(* Characters and Python's str operations *)

NL == "\n"
CR == "\r"
\* a byte that is not valid UTF-8 (0xFF), as it sits in a file
BADBYTE == "0xFF"
\* the lone surrogate U+DCFF that surrogateescape decoding makes of that byte
SURROGATE == "U+DCFF"

LowerCase == <<"a", "b", "c", "d", "e", "f", "g", "h", "i", "j", "k", "l", "m",
               "n", "o", "p", "q", "r", "s", "t", "u", "v", "w", "x", "y", "z">>
UpperCase == <<"A", "B", "C", "D", "E", "F", "G", "H", "I", "J", "K", "L", "M",
               "N", "O", "P", "Q", "R", "S", "T", "U", "V", "W", "X", "Y", "Z">>

Range(s) == {s[i] : i \in 1..Len(s)}
Min(S) == CHOOSE x \in S : \A y \in S : x <= y

IsLower(c) == \E i \in 1..26 : LowerCase[i] = c
IsUpper(c) == \E i \in 1..26 : UpperCase[i] = c
IsCased(c) == IsLower(c) \/ IsUpper(c)
LetterIndex(c) == CHOOSE i \in 1..26 : LowerCase[i] = c \/ UpperCase[i] = c
ToUpper(c) == IF IsCased(c) THEN UpperCase[LetterIndex(c)] ELSE c
ToLower(c) == IF IsCased(c) THEN LowerCase[LetterIndex(c)] ELSE c

\* ord(c)
CodePoint(c) ==
    IF IsUpper(c) THEN 64 + LetterIndex(c)
    ELSE IF IsLower(c) THEN 96 + LetterIndex(c)
    ELSE CASE c = "\t" -> 9
           [] c = NL -> 10
           [] c = CR -> 13
           [] c = " " -> 32
           [] c = "!" -> 33
           [] c = "#" -> 35
           [] c = "-" -> 45
           [] c = "." -> 46
           [] c = "<" -> 60
           [] c = ">" -> 62
           [] c = "_" -> 95
           [] c = SURROGATE -> 56575
           [] OTHER -> 255

\* a < b on str: lexicographic by code point
StrLess(a, b) ==
    \E k \in 1..Len(b) :
        /\ k - 1 <= Len(a)
        /\ \A j \in 1..(k - 1) : a[j] = b[j]
        /\ \/ Len(a) = k - 1
           \/ CodePoint(a[k]) < CodePoint(b[k])

\* a[:k]
PySliceTo(s, k) ==
    LET kk == IF k < 0 THEN k + Len(s) ELSE k
        hi == IF kk < 0 THEN 0 ELSE IF kk > Len(s) THEN Len(s) ELSE kk
    IN  SubSeq(s, 1, hi)

\* a[k:]
PySliceFrom(s, k) ==
    LET kk == IF k < 0 THEN k + Len(s) ELSE k
        lo == IF kk < 0 THEN 0 ELSE IF kk > Len(s) THEN Len(s) ELSE kk
    IN  SubSeq(s, lo + 1, Len(s))

\* s.find(sub): index (from 0) of the first occurrence, -1 when there is none
Find(s, sub) ==
    LET hits == {i \in 0..(Len(s) - Len(sub)) : SubSeq(s, i + 1, i + Len(sub)) = sub}
    IN  IF hits = {} THEN -1 ELSE Min(hits)

\* s.replace(old, new) for single characters
Replace(s, old, new) == [i \in 1..Len(s) |-> IF s[i] = old THEN new ELSE s[i]]

\* s.title(): a cased character is upper-cased when it starts a run of cased
\* characters and lower-cased inside one
Title(s) ==
    [i \in 1..Len(s) |->
        IF ~IsCased(s[i]) THEN s[i]
        ELSE IF i > 1 /\ IsCased(s[i - 1]) THEN ToLower(s[i]) ELSE ToUpper(s[i])]

Whitespace == {" ", "\t", NL, CR}

\* s.strip()
Strip(s) ==
    LET keep == {i \in 1..Len(s) : s[i] \notin Whitespace}
    IN  IF keep = {} THEN <<>>
        ELSE SubSeq(s, Min(keep), CHOOSE i \in keep : \A j \in keep : j <= i)

\* s.startswith(c) for a single character
StartsWith(s, c) == Len(s) >= 1 /\ s[1] = c

RECURSIVE Join(_, _)
\* sep.join(list)
Join(sep, list) ==
    IF list = <<>> THEN <<>>
    ELSE IF Len(list) = 1 THEN list[1]
    ELSE list[1] \o sep \o Join(sep, Tail(list))

-----------------------------------------------------------------------------
(* Text-mode file input and output, encoding utf-8, default newline mode *)

NoFile == [exists |-> FALSE, perm |-> "none", data |-> <<>>]
File(perm, data) == [exists |-> TRUE, perm |-> perm, data |-> data]

\* reading translates "\r\n" and "\r" to "\n"
UniversalNewlines(d) ==
    LET kept == SelectSeq([i \in 1..Len(d) |-> i],
                          LAMBDA i : ~(d[i] = NL /\ i > 1 /\ d[i - 1] = CR))
    IN  [j \in 1..Len(kept) |-> IF d[kept[j]] = CR THEN NL ELSE d[kept[j]]]

\* os.linesep
linesep == <<NL>>

RECURSIVE WriteNewlines(_)
\* writing translates "\n" to os.linesep
WriteNewlines(t) ==
    IF t = <<>> THEN <<>>
    ELSE IF Len(t) = 1 THEN (IF t[1] = NL THEN linesep ELSE t)
    ELSE LET h == Len(t) \div 2
         IN  WriteNewlines(SubSeq(t, 1, h)) \o WriteNewlines(SubSeq(t, h + 1, Len(t)))

\* open(path, "r", encoding="utf-8") followed by reading the text
ReadText(file) ==
    IF ~file.exists THEN [raised |-> "FileNotFoundError", text |-> <<>>]
    ELSE IF file.perm = "none" THEN [raised |-> "PermissionError", text |-> <<>>]
    ELSE IF BADBYTE \in Range(file.data) THEN [raised |-> "UnicodeDecodeError", text |-> <<>>]
    ELSE [raised |-> "none", text |-> UniversalNewlines(file.data)]

\* open(path, "w", encoding="utf-8") followed by f.write(text): opening
\* truncates the file, write() encodes the text before any byte is stored
WriteText(file, text) ==
    IF file.exists /\ file.perm # "rw" THEN [raised |-> "PermissionError", file |-> file]
    ELSE IF SURROGATE \in Range(text) THEN [raised |-> "UnicodeEncodeError", file |-> File("rw", <<>>)]
    ELSE [raised |-> "none", file |-> File("rw", WriteNewlines(text))]

RECURSIVE SplitLines(_)
\* "for line in f": the lines of the text, each with its terminating "\n"
SplitLines(t) ==
    IF t = <<>> THEN <<>>
    ELSE LET n == Find(t, <<NL>>)
         IN  IF n = -1 THEN <<t>>
             ELSE <<SubSeq(t, 1, n + 1)>> \o SplitLines(SubSeq(t, n + 2, Len(t)))

-----------------------------------------------------------------------------
(* Configuration *)

START_MARKER == <<"<", "!", "-", "-", "S", "T", "A", "R", "T", "_", "P", "R", "O", "J", "E", "C", "T", "S", "_", "L", "I", "S", "T", "-", "-", ">">>
END_MARKER == <<"<", "!", "-", "-", "E", "N", "D", "_", "P", "R", "O", "J", "E", "C", "T", "S", "_", "L", "I", "S", "T", "-", "-", ">">>

IGNORE_LIST == << <<".", "g", "i", "t">>,
                  <<".", "g", "i", "t", "h", "u", "b">>,
                  <<"a", "s", "s", "e", "t", "s">> >>

-----------------------------------------------------------------------------
(* get_project_folders *)

\* os.listdir('.')
all_items == [i \in 1..Len(dir_entries) |-> dir_entries[i].name]

\* os.path.isdir(item)
isdir(item) == \E i \in 1..Len(dir_entries) : dir_entries[i].name = item /\ dir_entries[i].isdir

\* the list comprehension without the IGNORE_LIST test
IsProject_IgnoresNothing(item) == isdir(item)

\* the condition of the list comprehension
IsProject(item) == isdir(item) /\ item \notin Range(IGNORE_LIST)

RECURSIVE Insert(_, _)
Insert(x, s) ==
    IF s = <<>> THEN <<x>>
    ELSE IF ~StrLess(Head(s), x) THEN <<x>> \o s
    ELSE <<Head(s)>> \o Insert(x, Tail(s))

RECURSIVE Sorted(_)
\* list.sort()
Sorted(s) == IF s = <<>> THEN <<>> ELSE Insert(Head(s), Sorted(Tail(s)))

get_project_folders ==
    IF ~cwd_listable THEN <<>>
    ELSE Sorted(SelectSeq(all_items, IsProject))

-----------------------------------------------------------------------------
(* format_projects_as_markdown *)

NoProjectsText == <<"N", "o", " ", "p", "r", "o", "j", "e", "c", "t", "s", " ", "f", "o", "u", "n", "d", " ", "i", "n", " ", "t", "h", "i", "s", " ", "r", "e", "p", "o", "s", "i", "t", "o", "r", "y", " ", "y", "e", "t", ".">>

project_name(folder) == Title(Replace(Replace(folder, "_", " "), "-", " "))

project_url(folder) == <<".", "/">> \o folder \o <<"/">>

\* the test of the loop without the test for titles
IsDescriptionLine_KeepsTitles(line) == Strip(line) # <<>>

\* the test of the loop over the lines of the project's README
IsDescriptionLine(line) == Strip(line) # <<>> /\ ~StartsWith(Strip(line), "#")

RECURSIVE FirstDescription(_)
\* the loop over the lines: the first line that passes the test, stripped
FirstDescription(lines) ==
    IF lines = <<>> THEN <<>>
    ELSE IF IsDescriptionLine(Head(lines)) THEN Strip(Head(lines))
    ELSE FirstDescription(Tail(lines))

\* the try block of one iteration; any exception leaves description = ""
description(folder) ==
    LET f == proj_readme[folder]
        r == ReadText(f)
    IN  IF ~f.exists THEN <<>>
        ELSE IF r.raised # "none" THEN <<>>
        ELSE FirstDescription(SplitLines(r.text))

\* the first format string used for every folder
bullet_AlwaysColon(folder, desc) ==
    <<"*", " ", "*", "*", "[">> \o project_name(folder) \o <<"]", "(">>
    \o project_url(folder) \o <<")", "*", "*">> \o <<":", " ">> \o desc

\* the line appended to markdown_list
bullet(folder, desc) ==
    LET link == <<"*", " ", "*", "*", "[">> \o project_name(folder) \o <<"]", "(">>
                \o project_url(folder) \o <<")", "*", "*">>
    IN  IF desc # <<>> THEN link \o <<":", " ">> \o desc ELSE link

markdown_list(folders) == [i \in 1..Len(folders) |-> bullet(folders[i], description(folders[i]))]

format_projects_as_markdown(folders) ==
    IF folders = <<>> THEN NoProjectsText
    ELSE Join(<<NL>>, markdown_list(folders))

-----------------------------------------------------------------------------
(* update_readme *)

\* the test with "and" in place of "or"
MarkersMissing_Both(start_index, end_index) == start_index = -1 /\ end_index = -1

\* the test that aborts the update
MarkersMissing(start_index, end_index) == start_index = -1 \/ end_index = -1

\* the splice with the rest of the document taken from behind the start
\* marker instead of from the end marker
new_readme_KeepsOld(readme_content, start_index, end_index, project_list_md) ==
    PySliceTo(readme_content, start_index + Len(START_MARKER))
    \o <<NL, NL>> \o project_list_md \o <<NL, NL>>
    \o PySliceFrom(readme_content, start_index + Len(START_MARKER))

new_readme(readme_content, start_index, end_index, project_list_md) ==
    PySliceTo(readme_content, start_index + Len(START_MARKER))
    \o <<NL, NL>> \o project_list_md \o <<NL, NL>>
    \o PySliceFrom(readme_content, end_index)

\* The call's outcome: the file it leaves, the content it assembled (when it
\* got that far) and the exception that leaves the function ("none" when it
\* returns).
update_readme(file, project_list_md) ==
    LET r == ReadText(file)
        readme_content == r.text
        start_index == Find(readme_content, START_MARKER)
        end_index == Find(readme_content, END_MARKER)
        new == new_readme(readme_content, start_index, end_index, project_list_md)
        w == WriteText(file, new)
    IN  IF r.raised = "FileNotFoundError"
        THEN [file |-> file, assembled |-> FALSE, new |-> <<>>, raised |-> "none"]
        ELSE IF r.raised # "none"
        THEN [file |-> file, assembled |-> FALSE, new |-> <<>>, raised |-> r.raised]
        ELSE IF MarkersMissing(start_index, end_index)
        THEN [file |-> file, assembled |-> FALSE, new |-> <<>>, raised |-> "none"]
        ELSE [file |-> w.file, assembled |-> TRUE, new |-> new, raised |-> w.raised]

-----------------------------------------------------------------------------
(* Inputs: the working directories the runs start from *)

Entry(name, d) == [name |-> name, isdir |-> d]

RECURSIVE SeqsUpTo(_, _)
\* all sequences over S of length at most n
SeqsUpTo(S, n) ==
    IF n = 0 THEN {<<>>}
    ELSE LET shorter == SeqsUpTo(S, n - 1)
         IN  shorter \cup {<<x>> \o s : x \in S, s \in {t \in shorter : Len(t) = n - 1}}

RECURSIVE Concat(_)
Concat(ss) == IF ss = <<>> THEN <<>> ELSE Head(ss) \o Concat(Tail(ss))

NamePool == { <<".", "g", "i", "t">>,
              <<".", "g", "i", "t", "h", "u", "b">>,
              <<"a", "s", "s", "e", "t", "s">>,
              <<"a", "_", "b">>,
              <<"a", "-", "b">>,
              <<"B">>,
              <<"R", "E", "A", "D", "M", "E", ".", "m", "d">> }

PlainReadme == File("rw", <<"p", CR, NL>> \o START_MARKER \o <<"o">> \o END_MARKER \o <<NL>>)

ProjA == <<"a", "_", "b">>
ProjB == <<"B", "-", "c", "D">>
ProjBad == <<SURROGATE>>

NoReadmes == [n \in NamePool \cup {ProjA, ProjB, ProjBad} |-> NoFile]

\* the same local state at the start of every run
StartRun ==
    /\ pc = "scan"
    /\ runs = 1
    /\ project_folders = <<>>
    /\ descriptions = <<>>
    /\ project_list_markdown = <<>>
    /\ calls = <<>>

\* Directory listings: any entries, in any order, files and directories
InitScan ==
    /\ cwd_listable \in BOOLEAN
    /\ dir_entries \in {s \in SeqsUpTo({Entry(n, d) : n \in NamePool, d \in BOOLEAN}, MaxEntries) :
                          \A i, j \in 1..Len(s) : i # j => s[i].name # s[j].name}
    /\ proj_readme = NoReadmes
    /\ readme = PlainReadme
    /\ StartRun

ProjReadmeAlphabet == {" ", "#", "a", NL, CR, BADBYTE}

ProjReadmePool ==
    {NoFile, File("none", <<"a">>), File("r", END_MARKER \o <<NL>>)}
    \cup {File("r", d) : d \in SeqsUpTo(ProjReadmeAlphabet, MaxProjReadmeLen)}

\* Project READMEs: one or two projects, any short README in the first
InitFormat ==
    /\ cwd_listable = TRUE
    /\ dir_entries \in { <<Entry(ProjA, TRUE)>>,
                         <<Entry(ProjB, TRUE), Entry(ProjA, TRUE)>> }
    /\ \E fa \in ProjReadmePool, fb \in {NoFile, File("r", <<"#", NL, " ", "b", " ">>)} :
          proj_readme = [NoReadmes EXCEPT ![ProjA] = fa, ![ProjB] = fb]
    /\ readme = PlainReadme
    /\ StartRun

Pieces == {START_MARKER, END_MARKER, <<"x">>, <<CR, NL>>, <<BADBYTE>>}

ReadmePool ==
    {NoFile} \cup {File(p, Concat(ps)) : p \in {"rw", "r", "none"}, ps \in SeqsUpTo(Pieces, MaxPieces)}

\* the directories behind the generated blocks
Projects ==
    { [listable |-> TRUE, entries |-> <<>>, readmes |-> NoReadmes],
      [listable |-> FALSE, entries |-> <<Entry(ProjA, TRUE)>>, readmes |-> NoReadmes],
      [listable |-> TRUE, entries |-> <<Entry(ProjA, TRUE)>>,
       readmes |-> [NoReadmes EXCEPT ![ProjA] = File("r", <<"#", "T", NL, NL, "a", " ", "b", NL>>)]],
      [listable |-> TRUE, entries |-> <<Entry(ProjA, TRUE)>>,
       readmes |-> [NoReadmes EXCEPT ![ProjA] = File("r", END_MARKER \o <<NL>>)]],
      [listable |-> TRUE, entries |-> <<Entry(ProjBad, TRUE)>>, readmes |-> NoReadmes] }

\* Root READMEs: any arrangement of markers and other text
Init ==
    /\ \E p \in Projects :
          /\ cwd_listable = p.listable
          /\ dir_entries = p.entries
          /\ proj_readme = p.readmes
    /\ readme \in ReadmePool
    /\ StartRun

-----------------------------------------------------------------------------
(* The main block *)

\* project_folders = get_project_folders()
GetProjectFolders ==
    /\ pc = "scan"
    /\ project_folders' = get_project_folders
    /\ pc' = "format"
    /\ UNCHANGED <<fs, readme, runs, descriptions, project_list_markdown, calls>>

\* project_list_markdown = format_projects_as_markdown(project_folders)
FormatProjects ==
    /\ pc = "format"
    /\ descriptions' = [i \in 1..Len(project_folders) |-> description(project_folders[i])]
    /\ project_list_markdown' = format_projects_as_markdown(project_folders)
    /\ pc' = "patch"
    /\ UNCHANGED <<fs, readme, runs, project_folders, calls>>

\* update_readme(project_list_markdown); an exception that leaves the
\* function ends the run with a traceback
UpdateReadme ==
    /\ pc = "patch"
    /\ LET out == update_readme(readme, project_list_markdown)
       IN  /\ readme' = out.file
           /\ calls' = Append(calls, [before |-> readme,
                                      block |-> project_list_markdown,
                                      assembled |-> out.assembled,
                                      new |-> out.new,
                                      raised |-> out.raised,
                                      after |-> out.file])
           /\ pc' = IF out.raised = "none" THEN "done" ELSE "crashed"
    /\ UNCHANGED <<fs, runs, project_folders, descriptions, project_list_markdown>>

\* the script is run again on the directory as the last run left it
Rerun ==
    /\ pc \in {"done", "crashed"}
    /\ runs < MaxRuns
    /\ runs' = runs + 1
    /\ pc' = "scan"
    /\ project_folders' = <<>>
    /\ descriptions' = <<>>
    /\ project_list_markdown' = <<>>
    /\ UNCHANGED <<fs, readme, calls>>

Next == GetProjectFolders \/ FormatProjects \/ UpdateReadme \/ Rerun

Spec == Init /\ [][Next]_vars
SpecScan == InitScan /\ [][Next]_vars
SpecFormat == InitFormat /\ [][Next]_vars

-----------------------------------------------------------------------------
(* Properties of update_readme, stated over the record of its calls *)

Occurs(t, m) == \E i \in 0..(Len(t) - Len(m)) : SubSeq(t, i + 1, i + Len(m)) = m

\* index (from 0) of the first occurrence of m in t, which occurs in t
FirstAt(t, m) == CHOOSE i \in 0..(Len(t) - Len(m)) :
                    /\ SubSeq(t, i + 1, i + Len(m)) = m
                    /\ \A j \in 0..(i - 1) : SubSeq(t, j + 1, j + Len(m)) # m

HasBothMarkers(file) ==
    file.exists /\ Occurs(file.data, START_MARKER) /\ Occurs(file.data, END_MARKER)

IsPrefix(p, t) == Len(p) <= Len(t) /\ SubSeq(t, 1, Len(p)) = p
IsSuffix(q, t) == Len(q) <= Len(t) /\ SubSeq(t, Len(t) - Len(q) + 1, Len(t)) = q

\* C1: whenever update_readme is called on a README.md that contains both
\* markers and returns, the file afterwards starts with the original text
\* before the first start marker and ends with the original text from the
\* first end marker onward, character for character.
C1_FramePreserved ==
    \A k \in 1..Len(calls) :
        LET c == calls[k]
            d == c.before.data
        IN  (HasBothMarkers(c.before) /\ c.raised = "none") =>
                /\ IsPrefix(SubSeq(d, 1, FirstAt(d, START_MARKER)), c.after.data)
                /\ IsSuffix(SubSeq(d, FirstAt(d, END_MARKER) + 1, Len(d)), c.after.data)

\* C2: a call of update_readme on a README.md that lacks the start marker or
\* lacks the end marker assembles nothing and leaves the file as it was.
C2_NoWriteWithoutMarkers ==
    \A k \in 1..Len(calls) :
        LET c == calls[k]
        IN  (c.before.exists /\ ~HasBothMarkers(c.before)) =>
                (c.after = c.before /\ ~c.assembled)

C2_Witness ==
    \E k \in 1..Len(calls) :
        LET c == calls[k]
        IN  /\ c.before.exists
            /\ c.before.perm = "rw"
            /\ BADBYTE \notin Range(c.before.data)
            /\ Occurs(c.before.data, START_MARKER)
            /\ ~Occurs(c.before.data, END_MARKER)
            /\ c.raised = "none"
            /\ c.after = c.before

\* C3: a call of update_readme changes README.md only when the file contains
\* both markers and the first start marker lies before the first end marker.
C3_ChangeOnlyWithOrderedMarkers ==
    \A k \in 1..Len(calls) :
        LET c == calls[k]
            d == c.before.data
        IN  c.after # c.before =>
                /\ HasBothMarkers(c.before)
                /\ FirstAt(d, START_MARKER) < FirstAt(d, END_MARKER)

\* C4: after a call of update_readme that returns, on a README.md that
\* contains both markers, the text between the start marker and the end
\* marker of the file is exactly two newlines, the generated block, two
\* newlines.
C4_RegionIsBlock ==
    \A k \in 1..Len(calls) :
        LET c == calls[k]
            a == c.after.data
        IN  (HasBothMarkers(c.before) /\ c.raised = "none") =>
                /\ HasBothMarkers(c.after)
                /\ FirstAt(a, START_MARKER) + Len(START_MARKER) <= FirstAt(a, END_MARKER)
                /\ SubSeq(a, FirstAt(a, START_MARKER) + Len(START_MARKER) + 1, FirstAt(a, END_MARKER))
                     = <<NL, NL>> \o c.block \o <<NL, NL>>

\* C5: no exception leaves get_project_folders, format_projects_as_markdown
\* or update_readme: no run ends with an uncaught exception.
C5_NoExceptionEscapes == pc # "crashed"

\* C6: when a call of update_readme ends, README.md holds either exactly what
\* it held before the call or the complete content the call assembled.
C6_OriginalOrComplete ==
    \A k \in 1..Len(calls) :
        LET c == calls[k]
        IN  \/ c.after = c.before
            \/ c.assembled /\ c.after.exists /\ c.after.data = c.new

\* C10: two calls of update_readme in a row with the same block, on a
\* README.md whose first start marker lies before its first end marker and
\* with a block that contains neither marker, leave the file as the first
\* call alone left it.
C10_Idempotent ==
    \A k \in 1..(Len(calls) - 1) :
        LET c1 == calls[k]
            c2 == calls[k + 1]
            d == c1.before.data
        IN  ( /\ HasBothMarkers(c1.before)
              /\ FirstAt(d, START_MARKER) < FirstAt(d, END_MARKER)
              /\ ~Occurs(c1.block, START_MARKER)
              /\ ~Occurs(c1.block, END_MARKER)
              /\ c2.block = c1.block
              /\ c2.before = c1.after )
            => c2.after = c1.after

C10_Witness ==
    /\ Len(calls) = 2
    /\ LET c1 == calls[1]
           c2 == calls[2]
           d == c1.before.data
       IN  /\ HasBothMarkers(c1.before)
           /\ FirstAt(d, START_MARKER) < FirstAt(d, END_MARKER)
           /\ ~Occurs(c1.block, START_MARKER)
           /\ ~Occurs(c1.block, END_MARKER)
           /\ c1.raised = "none"
           /\ c1.after # c1.before
           /\ c2.block = c1.block
           /\ c2.before = c1.after
           /\ c2.assembled
           /\ c2.raised = "none"
           /\ c2.after = c1.after

-----------------------------------------------------------------------------
(* Properties of get_project_folders *)

RECURSIVE LexLess(_, _)
LexLess(a, b) ==
    IF b = <<>> THEN FALSE
    ELSE IF a = <<>> THEN TRUE
    ELSE IF Head(a) # Head(b) THEN CodePoint(Head(a)) < CodePoint(Head(b))
    ELSE LexLess(Tail(a), Tail(b))

IgnoreSet == { <<".", "g", "i", "t">>,
               <<".", "g", "i", "t", "h", "u", "b">>,
               <<"a", "s", "s", "e", "t", "s">> }

Scanned == pc \in {"format", "patch", "done", "crashed"}

\* C7: when the directory can be listed, get_project_folders returns exactly
\* the entries that are directories and are not in {.git, .github, assets},
\* each once, in ascending lexicographic order.
C7_ScanExact ==
    (Scanned /\ cwd_listable) =>
        /\ Range(project_folders) =
              {dir_entries[i].name : i \in {j \in 1..Len(dir_entries) :
                    dir_entries[j].isdir /\ dir_entries[j].name \notin IgnoreSet}}
        /\ \A i, j \in 1..Len(project_folders) :
              i < j => LexLess(project_folders[i], project_folders[j])

C7_Witness ==
    /\ pc = "format"
    /\ cwd_listable
    /\ Len(project_folders) = 2
    /\ \E i, j \in 1..Len(dir_entries) :
          /\ i < j
          /\ dir_entries[i].name = project_folders[2]
          /\ dir_entries[j].name = project_folders[1]
    /\ \E i \in 1..Len(dir_entries) :
          dir_entries[i].name \in IgnoreSet \/ ~dir_entries[i].isdir

-----------------------------------------------------------------------------
(* Properties of format_projects_as_markdown *)

Formatted == pc \in {"patch", "done", "crashed"}

\* the lines of a text, found by position: a line starts at the start of the
\* text and after every newline, and runs through the next newline
LineStarts(t) == {a \in 1..Len(t) : a = 1 \/ t[a - 1] = NL}
LineFrom(t, a) ==
    LET ends == {b \in a..Len(t) : t[b] = NL \/ b = Len(t)}
    IN  SubSeq(t, a, Min(ends))

Inked(l) == {i \in 1..Len(l) : l[i] \notin {" ", "\t", NL, CR}}
Trimmed(l) ==
    LET first == Min(Inked(l))
        last == CHOOSE i \in Inked(l) : \A j \in Inked(l) : j <= i
    IN  [i \in 1..(last - first + 1) |-> l[first + i - 1]]
Qualifies(l) == Inked(l) # {} /\ l[Min(Inked(l))] # "#"

ExpectedDescription(f) ==
    IF ~f.exists \/ f.perm = "none" \/ BADBYTE \in Range(f.data) THEN <<>>
    ELSE LET t == UniversalNewlines(f.data)
             q == {a \in LineStarts(t) : Qualifies(LineFrom(t, a))}
         IN  IF q = {} THEN <<>> ELSE Trimmed(LineFrom(t, Min(q)))

Link(folder) ==
    <<"*", " ", "*", "*", "[">> \o project_name(folder) \o <<"]", "(", ".", "/">>
    \o folder \o <<"/", ")", "*", "*">>

ExpectedLine(i) ==
    IF descriptions[i] = <<>> THEN Link(project_folders[i])
    ELSE Link(project_folders[i]) \o <<":", " ">> \o descriptions[i]

RECURSIVE Offset(_)
\* where line i starts in the joined text (from 0)
Offset(i) == IF i = 1 THEN 0 ELSE Offset(i - 1) + Len(ExpectedLine(i - 1)) + 1

\* C9: for a non-empty list of folders the result holds one bullet line per
\* folder, in input order, with a single newline between consecutive lines
\* and nothing after the last; a line carries ": <description>" exactly when
\* the folder has a description.
C9_BulletList ==
    (Formatted /\ project_folders # <<>>) =>
        LET md == project_list_markdown
            n == Len(project_folders)
        IN  /\ Len(md) = Offset(n) + Len(ExpectedLine(n))
            /\ \A i \in 1..n :
                  SubSeq(md, Offset(i) + 1, Offset(i) + Len(ExpectedLine(i))) = ExpectedLine(i)
            /\ \A i \in 1..(n - 1) : md[Offset(i + 1)] = NL

C9_Witness ==
    /\ pc = "patch"
    /\ Len(project_folders) = 2
    /\ descriptions[1] = <<>>
    /\ descriptions[2] # <<>>
    /\ Len(project_list_markdown) > 0

====
